---- MODULE Spec2Model ----
(***************************************************************************)
(* Mathemelody: the browser playback engine (src/script.js) and the        *)
(* composition API (src/mathemelody_backend.js over the schema of          *)
(* src/mathemelody_schema.sql).                                            *)
(*                                                                         *)
(* Spec     the playback engine: grid, transport, periodic timer, tick.    *)
(* SpecApi  the HTTP handlers, one step per database statement, so that    *)
(*          requests interleave at their await points.                     *)
(***************************************************************************)
EXTENDS Integers, Sequences, FiniteSets, TLC

(***************************************************************************)
(* Bounds of the model.                                                    *)
(***************************************************************************)
\* equation inputs of index < EditWindow receive edits
EditWindow == 1
\* size of the pool the host draws interval-timer handles from
MaxTimers == 2

(***************************************************************************)
(* Program constants.                                                      *)
(***************************************************************************)
\* script.js:217  createGrid(16)
InitialGridSize == 16
\* script.js:57   size >= 1 && size <= 32
MinGridSize == 1
MaxGridSize == 32
\* script.js:8    scaleFrequencies has 8 entries
ScaleLength == 8
\* script.js:87   setTimeout(..., 100), milliseconds
MarkDuration == 100
\* script.js:132  Array.from({ length: 32 }, (_, i) => i)
GraphPoints == 32

VARIABLES
    equations,    \* script.js:2  the expressions of the grid, in order
    isPlaying,    \* script.js:3
    currentStep,  \* script.js:4
    intervalId,   \* script.js:5  handle of the timer started last
    timers,       \* the host's live interval timers (setInterval/clearInterval)
    tempo,        \* value of the #tempo slider
    marks,        \* indices of the cells of the grid that carry class 'playing'
    timeouts,     \* the host's pending timeouts of script.js:87, oldest first
    last          \* the handler that ran last: its event, its input, isPlaying
                  \* and the live timers when it began, and its observable effects

playVars == <<equations, isPlaying, currentStep, intervalId, timers, tempo,
              marks, timeouts, last>>

\* the database and the connections of the server
VARIABLES
    users,         \* rows of users: [id, username, email]
    compositions,  \* rows of compositions by id: [user_id, title, is_public, play_count]
    nextCompId,    \* the SERIAL sequence of compositions.id
    likes,         \* rows of likes: number of rows per <<composition_id, user_id>>
    reqs,          \* the requests between two statements, by connection
    issued,        \* number of requests received so far
    lastResp       \* the response sent last

apiVars == <<users, compositions, nextCompId, likes, reqs, issued, lastResp>>

(***************************************************************************)
(* Values.                                                                 *)
(***************************************************************************)
\* intervalId before the first start (script.js:5 declares it unset)
NoTimer == -1
TimerIds == 0 .. (MaxTimers - 1)

\* values the tempo slider takes (beats per minute)
Tempos == {60, 120}

\* the texts typed into an equation input
Exprs == {"", " ", "x", "x-5", "i", "x+", "true"}

\* a repeated n times, as Array(n).fill(a)
Fill(n, a) == [k \in 1 .. n |-> a]

(***************************************************************************)
(* parseInt of the #gridSize text.  A text is a sequence of characters.    *)
(***************************************************************************)
Digits == <<"0", "1", "2", "3", "4", "5", "6", "7", "8", "9">>

IsDigit(c) == \E d \in 1 .. 10 : Digits[d] = c

DigitVal(c) == (CHOOSE d \in 1 .. 10 : Digits[d] = c) - 1

IsSpace(c) == c = " "

RECURSIVE SkipSpaces(_)
SkipSpaces(str) ==
    IF str # <<>> /\ IsSpace(Head(str)) THEN SkipSpaces(Tail(str)) ELSE str

\* value of the longest prefix of digits of str, continuing from acc
RECURSIVE DigitsValue(_, _)
DigitsValue(str, acc) ==
    IF str # <<>> /\ IsDigit(Head(str))
    THEN DigitsValue(Tail(str), 10 * acc + DigitVal(Head(str)))
    ELSE acc

NaN == [nan |-> TRUE, val |-> 0]

Num(v) == [nan |-> FALSE, val |-> v]

\* parseInt(text): leading blanks, an optional sign, then the digits up to
\* the first character that is none; NaN when there is no digit.
ParseInt(str) ==
    LET s1 == SkipSpaces(str)
        neg == s1 # <<>> /\ Head(s1) = "-"
        s2 == IF s1 # <<>> /\ Head(s1) \in {"-", "+"} THEN Tail(s1) ELSE s1
    IN  IF s2 = <<>> \/ ~IsDigit(Head(s2))
        THEN NaN
        ELSE Num((IF neg THEN -1 ELSE 1) * DigitsValue(s2, 0))

\* texts of the #gridSize input
GridSizeInputs ==
    { <<"0">>, <<"1">>, <<"2">>, <<"3">>, <<"3", "2">>, <<"3", "3">>,
      <<>>, <<"a", "b">>, <<"4", "x">>, <<" ", "-", "1">> }

(***************************************************************************)
(* The expression evaluator, math.evaluate(text, {x, pi, e, i}), on the    *)
(* texts of Exprs.  A result is a value with its type, or a thrown error.  *)
(* Every number these texts yield is finite, so playNote is always given   *)
(* an entry of scaleFrequencies.                                           *)
(***************************************************************************)
Real(v) == [type |-> "number", re |-> v, im |-> 0]

Complex(a, b) == [type |-> "Complex", re |-> a, im |-> b]

Other(t) == [type |-> t, re |-> 0, im |-> 0]

Throws == [type |-> "throw", re |-> 0, im |-> 0]

Evaluate(expr, x) ==
    CASE expr = "x"    -> Real(x)
      [] expr = "x-5"  -> Real(x - 5)
      [] expr = "i"    -> Complex(0, 1)
      [] expr = "x+"   -> Throws               \* SyntaxError: unexpected end
      [] expr = "true" -> Other("boolean")
      [] OTHER         -> Other("undefined")   \* no expression: "" and blanks

Abs(v) == IF v < 0 THEN -v ELSE v

\* math.abs of a Complex result; the Complex results of Exprs have a whole
\* modulus
Modulus(result) ==
    CHOOSE r \in 0 .. (Abs(result.re) + Abs(result.im)) :
        r * r = result.re * result.re + result.im * result.im

\* null
Null == Other("null")

\* Math.round(sqrt(n)) for a natural n
RoundSqrt(n) ==
    CHOOSE r \in 0 .. n :
        /\ (r = 0 \/ (2 * r - 1) * (2 * r - 1) <= 4 * n)
        /\ 4 * n < (2 * r + 1) * (2 * r + 1)

\* Math.round(magnitude) of a number or Complex result
RoundedMagnitude(result) ==
    IF result.type = "Complex"
    THEN RoundSqrt(result.re * result.re + result.im * result.im)
    ELSE Abs(result.re)

\* index into scaleFrequencies
NoteIndex(result) == RoundedMagnitude(result) % ScaleLength

\* a string is truthy when it is not empty
Truthy(str) == str # ""

(***************************************************************************)
(* The engine as one record, so that handlers compose the way the code     *)
(* calls them.  The fields after timers are the effects of the handler     *)
(* that is running: tone played, message shown, graph redrawn, ...         *)
(***************************************************************************)
NoFx ==
    [ step      |-> -1,     \* currentStep the tick, or the timeout, read
      evaluated |-> FALSE,  \* math.evaluate was called by the tick
      tones     |-> <<>>,   \* indices of the frequencies given to playNote
      errorStep |-> 0,      \* step number showError named, 0: no message
      graphed   |-> <<>>,   \* expressions given to updateGraph
      alerted   |-> FALSE,  \* alert() was shown
      escaped   |-> FALSE ] \* an exception left the handler

Cur ==
    [ equations   |-> equations,
      isPlaying   |-> isPlaying,
      currentStep |-> currentStep,
      intervalId  |-> intervalId,
      timers      |-> timers,
      tempo       |-> tempo,
      marks       |-> marks,
      timeouts    |-> timeouts,
      fx          |-> NoFx ]

Commit(op, arg, s) ==
    /\ equations' = s.equations
    /\ isPlaying' = s.isPlaying
    /\ currentStep' = s.currentStep
    /\ intervalId' = s.intervalId
    /\ timers' = s.timers
    /\ tempo' = s.tempo
    /\ marks' = s.marks
    /\ timeouts' = s.timeouts
    /\ last' = [op |-> op, arg |-> arg, wasPlaying |-> isPlaying,
                wasTimers |-> timers, fx |-> s.fx]
    /\ UNCHANGED apiVars

\* createGrid that carries the texts of the old cells over to the new ones
createGridKeepText(s, size) ==
    [s EXCEPT !.equations =
                  [k \in 1 .. size |-> IF k <= Len(s.equations) THEN s.equations[k] ELSE ""],
              !.marks = {},
              !.timeouts = [k \in DOMAIN @ |-> [@[k] EXCEPT !.detached = TRUE]]]

\* createGrid(size): script.js:36-53.  grid.innerHTML = '' takes the old
\* cells out of the document; the new cells carry no class 'playing', and the
\* NodeList a pending timeout holds keeps the old ones.
createGrid(s, size) ==
    [s EXCEPT !.equations = Fill(size, ""),
              !.marks = {},
              !.timeouts = [k \in DOMAIN @ |-> [@[k] EXCEPT !.detached = TRUE]]]

\* the callback of xValues.map: script.js:133-143
updateGraphSample(equation, x) ==
    LET result == Evaluate(equation, x)
    IN  IF result.type = "throw" THEN Null                          \* catch
        ELSE IF result.type = "Complex" THEN Real(Modulus(result))  \* math.abs
        ELSE result                                                 \* line 139

\* yValues of updateGraph(equation), the samples at x = 0, 1, ...:
\* script.js:132-143
yValues(equation) ==
    [k \in 1 .. GraphPoints |-> updateGraphSample(equation, k - 1)]

\* updateGraph(equation): script.js:131-146.  The chart's dataset becomes
\* yValues(equation); the effects keep the equation, of which the dataset is
\* a function.
updateGraph(s, equation) == [s EXCEPT !.fx.graphed = Append(@, equation)]

\* the input listener of cell i (0-based): script.js:46-49
setExpression(s, i, text) ==
    updateGraph([s EXCEPT !.equations[i + 1] = text], text)

\* clearInterval(id)
ClearInterval(live, id) == {t \in live : t.id # id}

\* stopSequence(): script.js:157-164
stopSequence(s) ==
    IF s.isPlaying
    THEN [s EXCEPT !.isPlaying = FALSE,
                   !.timers = ClearInterval(@, s.intervalId),
                   !.currentStep = 0,
                   !.marks = {}]
    ELSE s

\* (60 / tempo) * 1000 / 2: script.js:152
Interval(t) == ((60 * 1000) \div t) \div 2

\* handles setInterval can return: none that is live, nor the stale one
FreeIds(s) == TimerIds \ ({t.id : t \in s.timers} \cup {s.intervalId})

\* the unguarded start: a timer is started whatever isPlaying says
startSequenceUnguarded(s) ==
    LET id == CHOOSE i \in FreeIds(s) : \A j \in FreeIds(s) : i <= j
    IN  [s EXCEPT !.isPlaying = TRUE,
                  !.intervalId = id,
                  !.timers = @ \cup {[id |-> id, period |-> Interval(s.tempo)]}]

\* startSequence(): script.js:148-155
startSequence(s) ==
    IF ~s.isPlaying
    THEN LET id == CHOOSE i \in FreeIds(s) : \A j \in FreeIds(s) : i <= j
         IN  [s EXCEPT !.isPlaying = TRUE,
                       !.intervalId = id,
                       !.timers = @ \cup {[id |-> id, period |-> Interval(s.tempo)]}]
    ELSE s

\* updateGrid without the stop
updateGridNoStop(s, text) ==
    LET size == ParseInt(text)
    IN  IF ~size.nan /\ size.val >= MinGridSize /\ size.val <= MaxGridSize
        THEN createGrid(s, size.val)
        ELSE [s EXCEPT !.fx.alerted = TRUE]

\* updateGrid(): script.js:55-63
updateGrid(s, text) ==
    LET size == ParseInt(text)
    IN  IF ~size.nan /\ size.val >= MinGridSize /\ size.val <= MaxGridSize
        THEN stopSequence(createGrid(s, size.val))
        ELSE [s EXCEPT !.fx.alerted = TRUE]

\* the listener without the restart: the slider's value alone changes
tempoInputNoRestart(s, value) == [s EXCEPT !.tempo = value]

\* the listener of the tempo slider: script.js:208-214
tempoInput(s, value) ==
    LET s1 == [s EXCEPT !.tempo = value]
    IN  IF s1.isPlaying THEN startSequence(stopSequence(s1)) ELSE s1

\* showError(`Error in step ${currentStep + 1}: ...`): script.js:115
showError(s) == [s EXCEPT !.fx.errorStep = s.currentStep + 1]

\* the cursor after a tick, without the wrap
NextStepNoWrap(step, length) == step + 1

\* (currentStep + 1) % equations.length: script.js:119
NextStep(step, length) == (step + 1) % length

\* the body of the try block: script.js:91-112
evaluateStep(s, equation) ==
    LET result == Evaluate(equation, s.currentStep)
        s1 == [s EXCEPT !.fx.evaluated = TRUE]
    IN  IF result.type \in {"Complex", "number"}
        THEN updateGraph([s1 EXCEPT !.fx.tones = Append(@, NoteIndex(result))], equation)
        ELSE showError(s1)    \* thrown by math.evaluate or by line 106

\* the cell of the step is marked and its unmarking is scheduled:
\* script.js:85-87.  The callback holds the NodeList read at line 85.
markPlaying(s) ==
    [s EXCEPT !.fx.step = s.currentStep,
              !.marks = @ \cup {s.currentStep},
              !.timeouts = Append(@, [ncells |-> Len(s.equations), detached |-> FALSE])]

\* the callback of the timeout: script.js:87.  currentStep is read when the
\* callback runs; cells is the NodeList of the tick that set the timeout.
removePlaying(s) ==
    LET t  == Head(s.timeouts)
        s1 == [s EXCEPT !.timeouts = Tail(@), !.fx.step = s.currentStep]
    IN  IF s.currentStep >= t.ncells
        THEN [s1 EXCEPT !.fx.escaped = TRUE]      \* cells[currentStep] is undefined
        ELSE IF t.detached
             THEN s1                              \* a cell of a grid that is gone
             ELSE [s1 EXCEPT !.marks = @ \ {s.currentStep}]

\* playSequence with the advance as the last statement of the try block
playSequenceAdvanceInTry(s) ==
    IF s.currentStep >= Len(s.equations)
    THEN [s EXCEPT !.fx.step = s.currentStep, !.fx.escaped = TRUE]
    ELSE LET equation == s.equations[s.currentStep + 1]
             s1 == markPlaying(s)
             s2 == IF Truthy(equation) THEN evaluateStep(s1, equation) ELSE s1
         IN  IF s2.fx.errorStep = 0
             THEN [s2 EXCEPT !.currentStep = NextStep(s.currentStep, Len(s.equations))]
             ELSE s2

\* playSequence(), one tick of the timer: script.js:84-120.  cells holds one
\* cell per equation, so cells[currentStep] of line 86 is undefined, and the
\* tick ends in a TypeError, when currentStep is no index of the grid.
playSequence(s) ==
    IF s.currentStep >= Len(s.equations)
    THEN [s EXCEPT !.fx.step = s.currentStep, !.fx.escaped = TRUE]
    ELSE LET equation == s.equations[s.currentStep + 1]
             s1 == markPlaying(s)
             s2 == IF Truthy(equation) THEN evaluateStep(s1, equation) ELSE s1
         IN  [s2 EXCEPT !.currentStep = NextStep(s.currentStep, Len(s.equations))]

(***************************************************************************)
(* The events of the page.                                                 *)
(***************************************************************************)
InitPlay ==
    /\ equations = Fill(InitialGridSize, "")
    /\ isPlaying = FALSE
    /\ currentStep = 0
    /\ intervalId = NoTimer
    /\ timers = {}
    /\ tempo \in Tempos
    /\ marks = {}
    /\ timeouts = <<>>
    /\ last = [op |-> "init", arg |-> <<>>, wasPlaying |-> FALSE,
               wasTimers |-> {}, fx |-> NoFx]

\* click on #play
Start ==
    /\ FreeIds(Cur) # {}
    /\ Commit("start", <<>>, startSequence(Cur))

\* click on #stop
Stop ==
    /\ Commit("stop", <<>>, stopSequence(Cur))

\* click on #updateGrid with text in #gridSize
UpdateGrid ==
    \E text \in GridSizeInputs :
        /\ Commit("updateGrid", text, updateGrid(Cur, text))

\* input event of the tempo slider
TempoInput ==
    \E value \in Tempos :
        /\ FreeIds(stopSequence(Cur)) # {}
        /\ Commit("tempo", <<value>>, tempoInput(Cur, value))

\* input event of the equation cell i
EditCell ==
    \E i \in 0 .. (EditWindow - 1), text \in Exprs :
        /\ i < Len(equations)
        /\ Commit("input", <<i, text>>, setExpression(Cur, i, text))

\* The order of the host's timer tasks.  A pending timeout is due
\* MarkDuration after the tick that set it.  The engine has one live timer at
\* most; it fires a whole period after its start or after its last tick, and
\* neither is earlier than the tick that set the timeout.  So a timer of a
\* longer period than MarkDuration fires after every pending timeout.
FiresNext(t) == timeouts = <<>> \/ t.period <= MarkDuration

\* a live interval timer fires
Tick ==
    \E t \in timers :
        /\ FiresNext(t)
        /\ Commit("tick", <<t.id>>, playSequence(Cur))

\* the oldest pending timeout fires, MarkDuration after the tick that set it
Timeout ==
    /\ timeouts # <<>>
    /\ Commit("timeout", <<>>, removePlaying(Cur))

NextPlay ==
    \/ Start
    \/ Stop
    \/ UpdateGrid
    \/ TempoInput
    \/ EditCell
    \/ Tick
    \/ Timeout

(***************************************************************************)
(* The composition API.  The database: users, compositions and likes of    *)
(* mathemelody_schema.sql; comments take no part in what is checked here.  *)
(***************************************************************************)
\* compositions ever created
MaxCompositions == 1
\* requests in flight at a time
MaxInFlight == 2
\* requests the clients send in all
MaxRequests == 5

CompIds == 1 .. MaxCompositions
Slots == 1 .. MaxInFlight

\* the Authorization header: none, a token that does not verify, or the
\* token issued to the user of that id
NoToken == 0
BadToken == -1

\* the bodies of the register requests
RegisterBodies ==
    { [username |-> "ann", email |-> "a@x", password |-> "secret1"],
      [username |-> "bob", email |-> "b@x", password |-> "secret2"],
      [username |-> "bob", email |-> "a@x", password |-> "secret3"],
      [username |-> "ann", email |-> "a@x", password |-> "short"],
      [username |-> "ann", email |-> "a@x", password |-> ""] }

Titles == {"", "A", "B"}

Idle == [kind |-> "idle", auth |-> 0, id |-> 0, saw |-> FALSE, username |-> "", email |-> ""]

InFlight(kind, auth, id, saw) ==
    [kind |-> kind, auth |-> auth, id |-> id, saw |-> saw, username |-> "", email |-> ""]

Response(kind, status, auth, id, body, pgerror) ==
    [kind |-> kind, status |-> status, auth |-> auth, id |-> id, body |-> body,
     pgerror |-> pgerror]

NoResponse == Response("none", 0, 0, 0, "", "")

UserIds == {u.id : u \in users}

\* the connection a new request is served on
FreeSlot == CHOOSE s \in Slots : reqs[s] = Idle /\ \A r \in Slots : reqs[r] = Idle => s <= r

HasFreeSlot == \E s \in Slots : reqs[s] = Idle

\* a request arrives
Receive ==
    /\ issued < MaxRequests
    /\ issued' = issued + 1

\* the routes behind the authenticateToken middleware
Authenticated == {"create", "put", "delete", "like"}

\* authenticateToken: backend.js:30-45.  0: next() was called
authenticateToken(token) ==
    IF token = NoToken THEN 401
    ELSE IF token = BadToken THEN 403
    ELSE 0

\* req.user.id as the handler of the route sees it; 0 is no req.user
ReqUser(route, token) ==
    IF route \in Authenticated /\ authenticateToken(token) = 0 THEN token ELSE 0

InitApi ==
    /\ users = {}
    /\ compositions = << >>
    /\ nextCompId = 1
    /\ likes = << >>
    /\ reqs = [s \in Slots |-> Idle]
    /\ issued = 0
    /\ lastResp = NoResponse

\* a request is refused by authenticateToken
Unauthorized ==
    \E route \in Authenticated, token \in {NoToken, BadToken} :
        /\ Receive
        /\ lastResp' = Response(route, authenticateToken(token), 0, 0, "error", "")
        /\ UNCHANGED <<users, compositions, nextCompId, likes, reqs>>
        /\ UNCHANGED playVars

(***************************************************************************)
(* POST /api/auth/register: backend.js:52-106                              *)
(***************************************************************************)
\* SELECT * FROM users WHERE email = $1 OR username = $2
existingUser(email, username) ==
    {u \in users : u.email = email \/ u.username = username}

\* validation and the existence check: backend.js:54-73
RegisterCheck ==
    \E body \in RegisterBodies :
        /\ Receive
        /\ HasFreeSlot
        /\ IF body.password = "" \/ Len(body.password) < 6
           THEN /\ lastResp' = Response("register", 400, 0, 0, "error", "")
                /\ UNCHANGED reqs
           ELSE IF existingUser(body.email, body.username) # {}
           THEN /\ lastResp' = Response("register", 409, 0, 0, "error", "")
                /\ UNCHANGED reqs
           ELSE /\ reqs' = [reqs EXCEPT ![FreeSlot] =
                               [Idle EXCEPT !.kind = "register",
                                            !.username = body.username,
                                            !.email = body.email]]
                /\ UNCHANGED lastResp
        /\ UNCHANGED <<users, compositions, nextCompId, likes>>
        /\ UNCHANGED playVars

\* the INSERT, under UNIQUE(username) and UNIQUE(email), and the response:
\* backend.js:79-105
RegisterInsert ==
    \E s \in Slots :
        /\ reqs[s].kind = "register"
        /\ IF existingUser(reqs[s].email, reqs[s].username) # {}
           THEN /\ lastResp' = Response("register", 500, 0, 0, "error", "unique_violation")
                /\ UNCHANGED users
           ELSE LET id == Cardinality(users) + 1
                IN  /\ users' = users \cup {[id |-> id, username |-> reqs[s].username,
                                             email |-> reqs[s].email]}
                    /\ lastResp' = Response("register", 201, id, 0, "token", "")
        /\ reqs' = [reqs EXCEPT ![s] = Idle]
        /\ UNCHANGED <<issued, compositions, nextCompId, likes>>
        /\ UNCHANGED playVars

(***************************************************************************)
(* POST /api/compositions: backend.js:182-206                              *)
(***************************************************************************)
CreateComposition ==
    \E token \in UserIds, title \in Titles, is_public \in BOOLEAN :
        /\ Receive
        /\ nextCompId <= MaxCompositions
        /\ IF title = ""
           THEN /\ lastResp' = Response("create", 400, token, 0, "error", "")
                /\ UNCHANGED <<compositions, nextCompId>>
           ELSE /\ compositions' =
                       (nextCompId :> [user_id |-> ReqUser("create", token),
                                       title |-> title,
                                       is_public |-> is_public,
                                       play_count |-> 0]) @@ compositions
                /\ nextCompId' = nextCompId + 1
                /\ lastResp' = Response("create", 201, token, nextCompId, "composition", "")
        /\ UNCHANGED <<users, likes, reqs>>
        /\ UNCHANGED playVars

(***************************************************************************)
(* GET /api/compositions/:id: backend.js:230-266                           *)
(***************************************************************************)
\* the rows of the SELECT: ... WHERE c.id = $1 AND (c.is_public = true OR
\* c.user_id = $2), with userId 0 for the NULL of a request without req.user
selectVisible(id, userId) ==
    {c \in DOMAIN compositions :
        /\ c = id
        /\ (compositions[c].is_public \/ (userId # 0 /\ compositions[c].user_id = userId))}

\* the SELECT: backend.js:232-253
GetSelect ==
    \E token \in UserIds \cup {NoToken, BadToken}, id \in CompIds :
        /\ Receive
        /\ HasFreeSlot
        /\ IF selectVisible(id, ReqUser("get", token)) = {}
           THEN /\ lastResp' = Response("get", 404, token, id, "error", "")
                /\ UNCHANGED reqs
           ELSE /\ reqs' = [reqs EXCEPT ![FreeSlot] = InFlight("get", NoToken, id, TRUE)]
                /\ UNCHANGED lastResp
        /\ UNCHANGED <<users, compositions, nextCompId, likes>>
        /\ UNCHANGED playVars

\* the UPDATE of play_count and the response: backend.js:256-261
GetCount ==
    \E s \in Slots :
        /\ reqs[s].kind = "get"
        /\ compositions' =
               [c \in DOMAIN compositions |->
                   IF c = reqs[s].id
                   THEN [compositions[c] EXCEPT !.play_count = @ + 1]
                   ELSE compositions[c]]
        /\ lastResp' = Response("get", 200, reqs[s].auth, reqs[s].id, "composition", "")
        /\ reqs' = [reqs EXCEPT ![s] = Idle]
        /\ UNCHANGED <<issued, users, nextCompId, likes>>
        /\ UNCHANGED playVars

(***************************************************************************)
(* PUT and DELETE /api/compositions/:id: backend.js:269-332                *)
(***************************************************************************)
\* the ownership check with the comparison of the owner left out
checkOwnershipAnyUser(id, userId) ==
    IF id \notin DOMAIN compositions THEN 404 ELSE 0

\* SELECT user_id FROM compositions WHERE id = $1, and the two refusals:
\* backend.js:275-286 and 312-323.  0: the handler goes on
checkOwnership(id, userId) ==
    IF id \notin DOMAIN compositions THEN 404
    ELSE IF compositions[id].user_id # userId THEN 403
    ELSE 0

\* the check of a PUT or a DELETE
OwnerCheck ==
    \E route \in {"put", "delete"}, token \in UserIds, id \in CompIds :
        /\ Receive
        /\ HasFreeSlot
        /\ LET verdict == checkOwnership(id, ReqUser(route, token))
           IN  IF verdict # 0
               THEN /\ lastResp' = Response(route, verdict, token, id, "error", "")
                    /\ UNCHANGED reqs
               ELSE /\ reqs' = [reqs EXCEPT ![FreeSlot] = InFlight(route, token, id, TRUE)]
                    /\ UNCHANGED lastResp
        /\ UNCHANGED <<users, compositions, nextCompId, likes>>
        /\ UNCHANGED playVars

\* UPDATE compositions SET ... WHERE id = $6, and the response: backend.js:288-299
PutUpdate ==
    \E s \in Slots, title \in Titles \ {""}, is_public \in BOOLEAN :
        /\ reqs[s].kind = "put"
        /\ compositions' =
               [c \in DOMAIN compositions |->
                   IF c = reqs[s].id
                   THEN [compositions[c] EXCEPT !.title = title, !.is_public = is_public]
                   ELSE compositions[c]]
        /\ lastResp' = Response("put", 200, reqs[s].auth, reqs[s].id, "composition", "")
        /\ reqs' = [reqs EXCEPT ![s] = Idle]
        /\ UNCHANGED <<issued, users, nextCompId, likes>>
        /\ UNCHANGED playVars

\* rows of likes left by ON DELETE CASCADE of composition id
CascadeLikes(id) ==
    [p \in {q \in DOMAIN likes : q[1] # id} |-> likes[p]]

\* DELETE FROM compositions WHERE id = $1, and the response: backend.js:325-327
DeleteRow ==
    \E s \in Slots :
        /\ reqs[s].kind = "delete"
        /\ compositions' =
               [c \in DOMAIN compositions \ {reqs[s].id} |-> compositions[c]]
        /\ likes' = CascadeLikes(reqs[s].id)
        /\ lastResp' = Response("delete", 200, reqs[s].auth, reqs[s].id, "message", "")
        /\ reqs' = [reqs EXCEPT ![s] = Idle]
        /\ UNCHANGED <<issued, users, nextCompId>>
        /\ UNCHANGED playVars

(***************************************************************************)
(* POST /api/compositions/:id/like: backend.js:374-403                     *)
(***************************************************************************)
\* SELECT id FROM likes WHERE composition_id = $1 AND user_id = $2
LikeSelect ==
    \E token \in UserIds, id \in CompIds :
        /\ Receive
        /\ HasFreeSlot
        /\ reqs' = [reqs EXCEPT ![FreeSlot] =
                       InFlight("like", token, id,
                                <<id, ReqUser("like", token)>> \in DOMAIN likes)]
        /\ UNCHANGED <<users, compositions, nextCompId, likes, lastResp>>
        /\ UNCHANGED playVars

\* the outcome of the second statement of the handler, as the new rows of
\* likes and the response, with both branches answering liked: true
likeWriteAlwaysTrue(req) ==
    LET pair == <<req.id, req.auth>>
    IN  IF req.saw
        THEN [likes |-> [p \in DOMAIN likes \ {pair} |-> likes[p]],
              resp  |-> Response("like", 200, req.auth, req.id, "liked:true", "")]
        ELSE IF req.id \notin DOMAIN compositions
        THEN [likes |-> likes,
              resp  |-> Response("like", 500, req.auth, req.id, "error",
                                 "foreign_key_violation")]
        ELSE IF pair \in DOMAIN likes
        THEN [likes |-> likes,
              resp  |-> Response("like", 500, req.auth, req.id, "error",
                                 "unique_violation")]
        ELSE [likes |-> (pair :> 1) @@ likes,
              resp  |-> Response("like", 200, req.auth, req.id, "liked:true", "")]

\* the second statement of the handler and its response: the DELETE when the
\* SELECT found a row (backend.js:384-390), else the INSERT, which the
\* REFERENCES compositions(id) and the UNIQUE(composition_id, user_id) of the
\* schema can refuse, and then the catch answers (backend.js:391-402)
likeWrite(req) ==
    LET pair == <<req.id, req.auth>>
    IN  IF req.saw
        THEN [likes |-> [p \in DOMAIN likes \ {pair} |-> likes[p]],
              resp  |-> Response("like", 200, req.auth, req.id, "liked:false", "")]
        ELSE IF req.id \notin DOMAIN compositions
        THEN [likes |-> likes,
              resp  |-> Response("like", 500, req.auth, req.id, "error",
                                 "foreign_key_violation")]
        ELSE IF pair \in DOMAIN likes
        THEN [likes |-> likes,
              resp  |-> Response("like", 500, req.auth, req.id, "error",
                                 "unique_violation")]
        ELSE [likes |-> (pair :> 1) @@ likes,
              resp  |-> Response("like", 200, req.auth, req.id, "liked:true", "")]

LikeWrite ==
    \E s \in Slots :
        /\ reqs[s].kind = "like"
        /\ likes' = likeWrite(reqs[s]).likes
        /\ lastResp' = likeWrite(reqs[s]).resp
        /\ reqs' = [reqs EXCEPT ![s] = Idle]
        /\ UNCHANGED <<issued, users, compositions, nextCompId>>
        /\ UNCHANGED playVars

vars == <<playVars, apiVars>>

Init == InitPlay /\ InitApi

Next == NextPlay

Spec == Init /\ [][Next]_vars

NextApi ==
    \/ Unauthorized
    \/ RegisterCheck
    \/ RegisterInsert
    \/ CreateComposition
    \/ GetSelect
    \/ GetCount
    \/ OwnerCheck
    \/ PutUpdate
    \/ DeleteRow
    \/ LikeSelect
    \/ LikeWrite

\* the server alone: the page stays as one load left it
InitServer ==
    /\ InitApi
    /\ equations = Fill(InitialGridSize, "")
    /\ isPlaying = FALSE
    /\ currentStep = 0
    /\ intervalId = NoTimer
    /\ timers = {}
    /\ tempo = 60
    /\ marks = {}
    /\ timeouts = <<>>
    /\ last = [op |-> "init", arg |-> <<>>, wasPlaying |-> FALSE,
               wasTimers |-> {}, fx |-> NoFx]

SpecApi == InitServer /\ [][NextApi]_vars

(***************************************************************************)
(* Properties of the playback engine.                                      *)
(***************************************************************************)
engine == <<equations, isPlaying, currentStep, intervalId, timers, tempo>>

ValidSize(text) ==
    LET size == ParseInt(text)
    IN  ~size.nan /\ size.val >= 1 /\ size.val <= 32

\* the expression the last tick read
TickExpr == equations[last.fx.step + 1]

\* texts without a visible character
IsBlank(expr) == expr \in {"", " "}

\* C1: at most one interval timer is live, and one is live exactly when
\* isPlaying is true (it is the one intervalId names); a start while Running
\* and a stop while Stopped change nothing; a tick fires only while Running.
C1_OneTimerIffPlaying ==
    /\ [](/\ Cardinality(timers) <= 1
          /\ isPlaying <=> timers # {}
          /\ isPlaying => \E t \in timers : t.id = intervalId)
    /\ [][(last'.op = "start" /\ isPlaying) => UNCHANGED engine]_vars
    /\ [][(last'.op = "stop" /\ ~isPlaying) => UNCHANGED engine]_vars
    /\ [][last'.op = "tick" => isPlaying]_vars

\* a start was requested while Running, and one timer is live
C1_Witness ==
    /\ last.op = "start"
    /\ last.wasPlaying
    /\ Cardinality(timers) = 1

\* C2: a resize to a valid size while Running leaves the engine Stopped:
\* isPlaying false, no live timer, currentStep 0.
C2_ResizeStops ==
    (last.op = "updateGrid" /\ last.wasPlaying /\ ValidSize(last.arg))
        => (~isPlaying /\ timers = {} /\ currentStep = 0)

\* a grid of 3 was requested while Running
C2_Witness ==
    /\ last.op = "updateGrid"
    /\ last.wasPlaying
    /\ last.arg = <<"3">>
    /\ Len(equations) = 3

\* C3: a resize to n in 1..32 replaces the grid by n empty slots; any other
\* request (n out of range, or no number) is refused with the alert and
\* leaves the grid and the playback state as they were.
C3_ResizeValidates ==
    [][last'.op = "updateGrid" =>
         IF ValidSize(last'.arg)
         THEN /\ equations' = [k \in 1 .. ParseInt(last'.arg).val |-> ""]
              /\ ~last'.fx.alerted
         ELSE /\ UNCHANGED engine
              /\ last'.fx.alerted]_vars

\* a resize was refused while Running on a grid that holds an expression
C3_Witness ==
    /\ last.op = "updateGrid"
    /\ last.fx.alerted
    /\ last.arg = <<"3", "3">>
    /\ isPlaying
    /\ currentStep > 0
    /\ equations[1] = "x"

\* the cursor after k ticks on a grid of the given length
RECURSIVE AfterTicks(_, _, _)
AfterTicks(step, length, k) ==
    IF k = 0 THEN step ELSE AfterTicks((step + 1) % length, length, k - 1)

\* C4: 0 <= currentStep < length of the grid, which is in 1..32; a tick sets
\* currentStep to (currentStep + 1) mod length, so that as many ticks as the
\* grid has slots bring the cursor back.
C4_CursorCyclic ==
    /\ [](/\ Len(equations) \in 1 .. 32
          /\ currentStep \in 0 .. (Len(equations) - 1)
          /\ AfterTicks(currentStep, Len(equations), Len(equations)) = currentStep)
    /\ [][last'.op = "tick" =>
            /\ currentStep' = (currentStep + 1) % Len(equations)
            /\ equations' = equations]_vars

\* the tick on the last slot of a grid resized to 3 wrapped the cursor
C4_Witness ==
    /\ last.op = "tick"
    /\ Len(equations) = 3
    /\ last.fx.step = 2
    /\ currentStep = 0

\* the expression the last tick read failed to evaluate
TickFailed ==
    /\ last.op = "tick"
    /\ ~IsBlank(TickExpr)
    /\ Evaluate(TickExpr, last.fx.step).type \notin {"number", "Complex"}

\* C5: a tick whose expression fails to evaluate shows the message naming
\* step currentStep + 1, plays no tone, lets no exception escape, and moves
\* the cursor on by one; the engine stays Running.
C5_FailedStepReported ==
    TickFailed =>
        /\ last.fx.errorStep = last.fx.step + 1
        /\ last.fx.tones = <<>>
        /\ ~last.fx.escaped
        /\ currentStep = (last.fx.step + 1) % Len(equations)
        /\ isPlaying
        /\ timers # {}

\* the tick on step 1 (index 0) read an expression with a syntax error
C5_Witness ==
    /\ TickFailed
    /\ last.fx.step = 0
    /\ TickExpr = "x+"
    /\ currentStep = 1

\* C10: a tick on an empty or blank slot skips the evaluation, plays no tone,
\* shows no error, leaves the graph alone, and moves the cursor on by one.
C10_BlankSkipped ==
    (last.op = "tick" /\ IsBlank(TickExpr)) =>
        /\ ~last.fx.evaluated
        /\ last.fx.tones = <<>>
        /\ last.fx.errorStep = 0
        /\ last.fx.graphed = <<>>
        /\ currentStep = (last.fx.step + 1) % Len(equations)

(***************************************************************************)
(* Properties of the composition API.                                      *)
(***************************************************************************)
IsOwner(id, token) ==
    /\ id \in DOMAIN compositions
    /\ token \in UserIds
    /\ compositions[id].user_id = token

\* C6: GET /api/compositions/:id answers 404 only when the composition is
\* neither public nor owned by the requester the bearer token identifies (the
\* 404 is the answer of the step that ran the SELECT); so the owner of a
\* private composition who sends a valid token receives it.
C6_PublicOrOwned ==
    (lastResp.kind = "get" /\ lastResp.status = 404) =>
        ~(/\ lastResp.id \in DOMAIN compositions
          /\ (compositions[lastResp.id].is_public \/ IsOwner(lastResp.id, lastResp.auth)))

\* what a PUT can change of a row
Content(row) == <<row.user_id, row.title, row.is_public>>

\* the step is the second statement of the like request on connection s
LikeAnswered(s) == reqs[s].kind = "like" /\ reqs'[s] = Idle

\* C7: a like request on a composition, run with no other write of its
\* (composition, user) pair between its two statements, toggles the pair: not
\* liked, it inserts the pair and answers liked:true; liked, it removes the
\* pair and answers liked:false; no other pair changes; a second call right
\* after the first answers the opposite flag; and the flag of every answer
\* tells whether the pair is liked after the call.
C7_LikeToggles ==
    [][\A s \in Slots :
          LikeAnswered(s) =>
              LET pair == <<reqs[s].id, reqs[s].auth>>
                  before == pair \in DOMAIN likes
                  after == pair \in DOMAIN likes'
                  flag == IF lastResp'.body = "liked:true" THEN TRUE ELSE FALSE
              IN  /\ (reqs[s].saw = before /\ reqs[s].id \in DOMAIN compositions) =>
                        /\ lastResp'.status = 200
                        /\ lastResp'.body = (IF before THEN "liked:false" ELSE "liked:true")
                        /\ after = ~before
                        /\ \A p \in (DOMAIN likes \cup DOMAIN likes') \ {pair} :
                              p \in DOMAIN likes /\ p \in DOMAIN likes'
                        /\ (/\ lastResp.kind = "like"
                            /\ lastResp.status = 200
                            /\ <<lastResp.id, lastResp.auth>> = pair)
                               => lastResp'.body # lastResp.body
                  /\ lastResp'.status = 200 =>
                        /\ lastResp'.body \in {"liked:true", "liked:false"}
                        /\ flag = after
                  /\ \A p \in DOMAIN likes' : likes'[p] = 1]_vars

\* a user who had liked the composition has just unliked it
C7_Witness ==
    /\ lastResp.kind = "like"
    /\ lastResp.body = "liked:false"
    /\ lastResp.id \in DOMAIN compositions
    /\ <<lastResp.id, lastResp.auth>> \notin DOMAIN likes
    /\ compositions[lastResp.id].user_id # lastResp.auth

\* C8: a write that violates a uniqueness constraint (a second user of the
\* same username or email, a second like of the same pair) is answered 409,
\* never 500, and no duplicate row is created.
C8_ConflictAnswered409 ==
    /\ lastResp.pgerror = "unique_violation" => lastResp.status = 409
    /\ \A p \in DOMAIN likes : likes[p] = 1
    /\ \A u, v \in users : (u.username = v.username \/ u.email = v.email) => u = v

\* C9: a PUT or DELETE of a user who is not the owner of the composition is
\* answered 403 and changes no row; and whatever the interleaving, a row is
\* updated or deleted only by the step of a PUT or DELETE of its owner.
C9_OwnerOnly ==
    [][/\ (/\ lastResp'.kind \in {"put", "delete"}
           /\ lastResp'.id \in DOMAIN compositions
           /\ lastResp'.auth \in UserIds
           /\ ~IsOwner(lastResp'.id, lastResp'.auth))
              => (lastResp'.status = 403 /\ compositions' = compositions)
       /\ \A c \in DOMAIN compositions :
            (c \notin DOMAIN compositions'
               \/ Content(compositions'[c]) # Content(compositions[c]))
              => /\ lastResp'.kind \in {"put", "delete"}
                 /\ lastResp'.status = 200
                 /\ lastResp'.id = c
                 /\ IsOwner(c, lastResp'.auth)]_vars

\* a registered user who does not own the composition was refused its update
\* while a request of the owner was between its check and its write
C9_Witness ==
    /\ lastResp.kind = "put"
    /\ lastResp.status = 403
    /\ lastResp.id \in DOMAIN compositions
    /\ lastResp.auth \in UserIds
    /\ ~IsOwner(lastResp.id, lastResp.auth)
    /\ \E s \in Slots : reqs[s].kind = "delete" /\ reqs[s].id = lastResp.id

(***************************************************************************)
(* The 'playing' mark of the cells.                                        *)
(***************************************************************************)
\* C11: a tick marks the cell of the step it plays; once the timeout of a
\* tick has fired, 100 ms after the tick, no cell is marked any more, so no
\* mark outlives its tick by more than 100 ms; and no cell is marked while
\* the engine is stopped.
C11_MarkLasts100ms ==
    /\ (last.op = "tick" /\ ~last.fx.escaped) => last.fx.step \in marks
    /\ timeouts = <<>> => marks = {}
    /\ ~isPlaying => marks = {}

(***************************************************************************)
(* The period of the timer.                                                *)
(***************************************************************************)
\* C12: the period of the live timer is (60 / tempo) * 1000 / 2 ms for the
\* tempo read at its start; after a tempo change while Running the engine is
\* Running with exactly one timer, of the period of the new tempo, and no
\* timer that was live before the change is live after it; a tempo change
\* while Stopped leaves the engine Stopped without a timer.
C12_TempoRestartsTimer ==
    /\ \A t \in timers : t.period * 2 * tempo = 60 * 1000
    /\ (last.op = "tempo" /\ last.wasPlaying) =>
           /\ isPlaying
           /\ Cardinality(timers) = 1
           /\ \A t \in timers : t.period * 2 * last.arg[1] = 60 * 1000
           /\ timers \cap last.wasTimers = {}
    /\ (last.op = "tempo" /\ ~last.wasPlaying) =>
           /\ ~isPlaying
           /\ timers = {}

\* the tempo went from 60 to 120 while Running: the timer of 500 ms is gone
\* and one of 250 ms is live
C12_Witness ==
    /\ last.op = "tempo"
    /\ last.wasPlaying
    /\ last.arg = <<120>>
    /\ \E old \in last.wasTimers : old.period = 500
    /\ \E t \in timers : t.period = 250 /\ t.id = intervalId

(***************************************************************************)
(* The graph.                                                              *)
(***************************************************************************)
\* the expression of the last recompute of the handler that ran last
Graphed == last.fx.graphed[Len(last.fx.graphed)]

\* a sample that is no point of the graph: null, or undefined, which the
\* chart draws like null
Absent(y) == y.type \in {"null", "undefined"}

\* y is the sample the claim asks for at x: the number, the modulus, or none
SampleAsClaimed(expr, x, y) ==
    LET result == Evaluate(expr, x)
    IN  CASE result.type = "number"  -> y = [type |-> "number", re |-> result.re, im |-> 0]
          [] result.type = "Complex" ->
                 /\ y.type = "number"
                 /\ y.re >= 0
                 /\ y.re * y.re = result.re * result.re + result.im * result.im
                 /\ y.im = 0
          [] OTHER                   -> Absent(y)

\* the dataset the chart was given by that recompute
ChartData == yValues(Graphed)

\* C13: a recompute of the graph assigns exactly 32 samples, the one at x in
\* 0..31 being the signed value of a real result, the modulus of a complex
\* one, and none when the evaluation at x throws or yields a result of any
\* other type; no error escapes; and the edit of a cell, which does nothing
\* but store the text and recompute, leaves the playback state alone.
C13_GraphSamples ==
    /\ [](last.fx.graphed # <<>> =>
             /\ Len(ChartData) = 32
             /\ \A x \in 0 .. 31 : SampleAsClaimed(Graphed, x, ChartData[x + 1])
             /\ ~last.fx.escaped)
    /\ [][last'.op = "input" =>
             UNCHANGED <<isPlaying, currentStep, intervalId, timers, tempo,
                         marks, timeouts>>]_vars

====
